---- MODULE Spec2Model ----
(***************************************************************************)
(* Behavioural model of the tutto-api client library.                      *)
(*                                                                         *)
(* Three generations of the same design live in the repository and are     *)
(* modelled side by side:                                                  *)
(*   - tutto_api/core + tutto_api/models   : catalog, factory, Endpoint    *)
(*     dataclasses bound to an Authorization object (specification Spec);  *)
(*   - tutto_api/src/models                : the older EndpointFactory     *)
(*     whose requests carry a bearer token (specification LegacySpec);     *)
(*   - tutto_api_client/models             : the Authorization class with  *)
(*     a user supplied bearer token (specification AuthSpec).              *)
(* Specification RaceSpec runs the factory of the first generation for two *)
(* concurrent callers, one statement of create_endpoint at a time.         *)
(*                                                                         *)
(* Python values are records tagged by their class in the field cls; a     *)
(* dict or a keyword-argument bag is a function from key names to values.  *)
(* Every operation yields an outcome: a returned value or a raised         *)
(* exception class.                                                        *)
(*                                                                         *)
(* Note on tutto_api/models/endpoints.py lines 27-32: the two fields of    *)
(* Endpoint are declared with field(metadata=False); dataclasses.field     *)
(* wraps a non-None metadata in types.MappingProxyType, which rejects a    *)
(* bool with TypeError while the class body is executed.  The model takes  *)
(* the class declarations as written (fields, defaults, abstractness,      *)
(* slots) and describes what the functions do with them.                   *)
(***************************************************************************)
EXTENDS Integers, Sequences, FiniteSets, TLC

VARIABLES
    runtime,    \* the interpreter line: zero-argument super() in a slots dataclass
    services,   \* _EndpointCatalog.__services (class attribute, shared)
    req,        \* the object the most recent factory call returned (NoneV if it raised)
    authz,      \* the Authorization the most recent construction returned (NoneV if it raised)
    last,       \* the most recent operation: its arguments, its print, its answers, its outcome
    wire,       \* the Transport requests the most recent operation issued, in order
    calls,      \* Transport round trips so far
    threads     \* the create_endpoint calls in progress, one per concurrent caller

vars == <<runtime, services, req, authz, last, wire, calls, threads>>

-----------------------------------------------------------------------------
(* Bounds of the model *)

\* cap on the Transport round-trip counter
MaxCalls == 4
\* longest relatives / occurrences list given to an employees request
MaxRecords == 2

-----------------------------------------------------------------------------
(* Python values and outcomes *)

NoneV == [cls |-> "None"]

EmptyDict == <<>>

Return(v) == [outcome |-> "return", error |-> "", value |-> v]

Raise(e) == [outcome |-> "raise", error |-> e, value |-> NoneV]

\* helpers/http.py (not in src/): an HTTPRequest only remembers its base_url
HTTPRequest(base_url) == [cls |-> "HTTPRequest", base_url |-> base_url]

-----------------------------------------------------------------------------
(* Dataclass declarations: one record per declared field *)

Req(n, t) == [name |-> n, type |-> t, init |-> TRUE, required |-> TRUE, default |-> NoneV]

OptStr(n, d) == [name |-> n, type |-> "str", init |-> TRUE, required |-> FALSE, default |-> d]

OptInt(n, d) == [name |-> n, type |-> "int", init |-> TRUE, required |-> FALSE, default |-> d]

OptList(n, t) == [name |-> n, type |-> t, init |-> TRUE, required |-> FALSE, default |-> <<>>]

\* models/endpoints.py: Endpoint(ABC), the two service fields, no defaults
EndpointFields ==
    << Req("http_client", "HTTPRequest"), Req("authorization", "Authorization") >>

DeductionsFields ==
    << Req("reference", "str"), OptStr("type", ""), OptStr("start_date", ""),
       OptStr("end_date", ""), OptInt("id", 0) >>

DirfFields ==
    << Req("reference", "str"), OptStr("layout", ""), OptInt("company_id", 0),
       OptStr("type", ""), OptStr("start_date", ""), OptStr("end_date", ""),
       OptInt("id", 0) >>

EmployeesFields ==
    <<
       Req("company_code", "str"),
       Req("company_vat", "str"),
       Req("name", "str"),
       Req("badge", "str"),
       Req("vat", "str"),
       Req("id_card", "str"),
       Req("id_card_entity", "str"),
       Req("id_card_emission", "date"),
       Req("id_card_emission_state", "str"),
       Req("sus_card", "str"),
       Req("ctps_number", "str"),
       Req("pis_pasep", "str"),
       Req("mother_name", "str"),
       Req("address", "str"),
       Req("address_number", "str"),
       Req("complement", "str"),
       Req("neighborhood", "str"),
       Req("city", "str"),
       Req("state", "str"),
       Req("zipcode", "str"),
       Req("phone", "str"),
       Req("email", "str"),
       Req("personal_email", "str"),
       Req("gender", "str"),
       Req("marital_status", "str"),
       Req("salary", "float"),
       Req("birthday_date", "date"),
       Req("admission_date", "date"),
       Req("resignation_date", "date"),
       Req("experience_end_date", "date"),
       Req("status_in_payroll", "str"),
       Req("organizational_unit_code", "str"),
       Req("organizational_unit_name", "str"),
       Req("position_code", "str"),
       Req("position_name", "str"),
       Req("occupation_code", "str"),
       Req("occupation_name", "str"),
       Req("workplace_code", "str"),
       Req("workplace_name", "str"),
       Req("syndicate_name", "str"),
       Req("transfer_date", "date"),
       Req("bank_code", "str"),
       Req("bank_agency", "str"),
       Req("bank_account", "str"),
       Req("resignation_reason_code", "str"),
       Req("resignation_reason_name", "str"),
       OptList("relatives", "List[Relative]"),
       OptList("occurrences", "List[Occurrence]") >>

EmployeesOccupationsFields ==
    << Req("badge", "str"), Req("vat", "str"), Req("occupation_code", "str"),
       OptStr("company_code", ""), OptStr("company_vat", "") >>

OccupationsFields ==
    << Req("code", "str"), Req("name", "str"), Req("description", "str"),
       Req("points", "int"), OptStr("company_code", ""), OptStr("company_vat", "") >>

ServiceTicketsFields ==
    << Req("employee_badge", "str"), Req("employee_vat", "str"),
       Req("employee_email", "str"), Req("title", "str"),
       Req("description", "str"), Req("service_type_id", "int") >>

\* the fields a variant declares itself, by endpoint name (same in both generations)
OwnFields(name) ==
    CASE name \in {"deductions", "purchases"} -> DeductionsFields
      [] name = "service_types" -> << >>
      [] name \in {"dirf_infos", "dirf_additional_infos"} -> DirfFields
      [] name = "employees" -> EmployeesFields
      [] name = "employees_occupations" -> EmployeesOccupationsFields
      [] name = "occupations" -> OccupationsFields
      [] name = "service_tickets" -> ServiceTicketsFields
      [] OTHER -> << >>

\* the positions of a declaration list
Idx(decl) == 1 .. Len(decl)

FieldNames(decl) == { decl[i].name : i \in Idx(decl) }

InitNames(decl) == { decl[i].name : i \in { j \in Idx(decl) : decl[j].init } }

RequiredNames(decl) ==
    { decl[i].name : i \in { j \in Idx(decl) : decl[j].init /\ decl[j].required } }

FieldOf(decl, n) == decl[CHOOSE i \in Idx(decl) : decl[i].name = n]

\* The __init__ a dataclass generates, called with keyword arguments only:
\* an abstract class cannot be instantiated, an unknown keyword or a missing
\* required field is a TypeError, an omitted optional field takes its default.
DataclassInit(cls, abstract, decl, kwargs) ==
    IF abstract THEN Raise("TypeError")
    ELSE IF (DOMAIN kwargs) \ InitNames(decl) /= {} THEN Raise("TypeError")
    ELSE IF RequiredNames(decl) \ (DOMAIN kwargs) /= {} THEN Raise("TypeError")
    ELSE Return([cls |-> cls,
                 slots |-> [n \in FieldNames(decl) |->
                               IF n \in DOMAIN kwargs THEN kwargs[n]
                               ELSE FieldOf(decl, n).default]])

-----------------------------------------------------------------------------
(* tutto_api/core/endpoints_factory.py *)

\* _EndpointCatalog.__catalog: endpoint name -> dataclass
Catalog ==
    [deductions |-> "_Deductions",
     purchases |-> "_Purchases",
     service_types |-> "_ServiceTypes",
     dirf_infos |-> "_DirfInfos",
     dirf_additional_infos |-> "_DirfAdditionalInfos",
     employees |-> "_Employees",
     employees_occupations |-> "_EmployeesOccupations",
     occupations |-> "_Occupations",
     service_tickets |-> "_ServiceTickets"]

\* dict.get(name): the class, or None
CatalogGet(name) == IF name \in DOMAIN Catalog THEN Catalog[name] ELSE "None"

\* _EndpointCatalog.__setters
Setters == {"http_client", "authorization"}

\* _EndpointCatalog.__services as the class body leaves it
InitialServices == [http_client |-> NoneV, authorization |-> NoneV]

\* the dataclass of a catalog class: the inherited Endpoint fields, then its own
VariantFields(name) == EndpointFields \o OwnFields(name)

\* all(d) over a dict iterates its KEYS; a key is truthy unless it is the empty string
AllServices(s) == \A k \in DOMAIN s : k /= ""

\* _EndpointCatalog.get_endpoint(name, kwargs)
get_endpoint(s, name, kwargs) ==
    IF ~ AllServices(s) THEN Raise("ValueError")
    ELSE LET endpoint == CatalogGet(name) IN
         IF endpoint /= "None"
         THEN DataclassInit(endpoint, FALSE, VariantFields(name), kwargs)
         ELSE DataclassInit("Endpoint", TRUE, EndpointFields,
                            [http_client |-> s.http_client,
                             authorization |-> s.authorization])

\* a set_services that empties the other slot when it stores one
set_services_clearing_other(s, name, value) ==
    IF name \in Setters
    THEN [services |-> [k \in DOMAIN s |-> IF k = name THEN value ELSE NoneV],
          res |-> Return(NoneV)]
    ELSE [services |-> s, res |-> Raise("NameError")]

\* _EndpointCatalog.set_services(name, value): the new slots and the outcome
set_services(s, name, value) ==
    IF name \in Setters
    THEN [services |-> [s EXCEPT ![name] = value], res |-> Return(NoneV)]
    ELSE [services |-> s, res |-> Raise("NameError")]

\* _EndpointFactory.create_endpoint(base_url, endpoint, authorization, kwargs)
create_endpoint(s, base_url, endpoint, authorization, kwargs) ==
    LET http_client == HTTPRequest(base_url)
        s1 == set_services(s, "http_client", http_client).services
        s2 == set_services(s1, "authorization", authorization).services
    IN  [services |-> s2, res |-> get_endpoint(s2, endpoint, kwargs)]

-----------------------------------------------------------------------------
(* tutto_api/models/authorization.py *)

\* Authorization.__init__: stores its arguments, builds its own HTTPRequest
Authorization(base_url, user, password, basic_auth_token, user_type) ==
    [cls |-> "Authorization",
     http_client |-> HTTPRequest(base_url),
     user |-> user,
     password |-> password,
     basic_auth_token |-> basic_auth_token,
     user_type |-> user_type]

-----------------------------------------------------------------------------
(* Inputs *)

EndpointNames == DOMAIN Catalog

UnknownNames == {"payrolls"}

\* a keyword that is either left out or given one of vals
Opt(k, vals) == { EmptyDict } \cup { k :> v : v \in vals }

QueryKw ==
    { a @@ b :
        a \in Opt("reference", {"", "202301"}),
        b \in { EmptyDict,
                 "id" :> 0,
                 ("id" :> 5) @@ ("type" :> "t") @@ ("start_date" :> "20230101")
                   @@ ("end_date" :> "") } }

DirfKw ==
    { a @@ b :
        a \in Opt("reference", {"", "202301"}),
        b \in { EmptyDict,
                 ("layout" :> "L") @@ ("company_id" :> 0),
                 ("company_id" :> 3) @@ ("id" :> 5) @@ ("type" :> "") } }

\* datetime.date
Date(y, m, d) == [cls |-> "date", year |-> y, month |-> m, day |-> d]

Dates == { Date(2023, 1, 5), Date(1990, 12, 31) }

\* models/entities.py (not in src/): the attributes Employees.call reads
Relative(name, birth_date) ==
    [cls |-> "Relative", name |-> name, relationship |-> "child",
     birth_date |-> birth_date, cpf |-> "111", rg |-> "22", rg_issuer |-> "SSP",
     rg_issuer_state |-> "SP", rg_issuer_date |-> Date(2023, 1, 5)]

Occurrence(type, start_date) ==
    [cls |-> "Occurrence", type |-> type, start_date |-> start_date,
     end_date |-> Date(2023, 1, 5), absence_reason_code |-> "07",
     absence_reason_name |-> "leave"]

Relatives == { Relative("ana", Date(2023, 1, 5)), Relative("bia", Date(1990, 12, 31)) }

Occurrences == { Occurrence("absence", Date(1990, 12, 31)) }

BoundedSeq(S, n) == UNION { [1 .. k -> S] : k \in 0 .. n }

\* every required employees field: strings s, salary n, dates d
EmployeeRecord(s, n, d) ==
    [k \in RequiredNames(EmployeesFields) |->
        LET t == FieldOf(EmployeesFields, k).type IN
        CASE t = "str" -> s
          [] t = "float" -> n
          [] t = "date" -> d]

FullEmployee == EmployeeRecord("x", 2500, Date(2023, 1, 5))

Without(f, k) == [x \in (DOMAIN f) \ {k} |-> f[x]]

EmployeesKw ==
    { FullEmployee @@ ("occurrences" :> << CHOOSE x \in Occurrences : TRUE >>) @@ r :
        r \in { EmptyDict } \cup { "relatives" :> q : q \in BoundedSeq(Relatives, MaxRecords) } }
    \cup { EmployeeRecord("", 0, Date(1990, 12, 31)),
           EmployeeRecord("", 0, Date(1990, 12, 31)) @@ ("relatives" :> << >>)
             @@ ("occurrences" :> << >>) }
    \cup { Without(FullEmployee, "name") }

EmployeesOccupationsKw ==
    { a @@ b @@ c :
        a \in Opt("badge", {"", "b"}),
        b \in { ("vat" :> "v") @@ ("occupation_code" :> "oc") },
        c \in { EmptyDict, "company_code" :> "",
                 ("company_code" :> "cc") @@ ("company_vat" :> "cv") } }

OccupationsKw ==
    { a @@ b @@ ("name" :> "n") @@ ("description" :> "d") :
        a \in Opt("points", {0, 10}),
        b \in { "code" :> "",
                 ("code" :> "c") @@ ("company_code" :> ""),
                 ("code" :> "c") @@ ("company_code" :> "cc") @@ ("company_vat" :> "cv") } }

ServiceTicketsKw ==
    { a @@ b @@ c :
        a \in Opt("service_type_id", {0, 4}),
        b \in { ("employee_badge" :> x) : x \in {"", "b"} },
        c \in { ("employee_vat" :> "v") @@ ("employee_email" :> "e@x")
                @@ ("title" :> "t") @@ ("description" :> "d") } }

\* the field keywords tried for an endpoint name of the older factory
FieldKw(name) ==
    CASE name \in {"deductions", "purchases"} -> QueryKw
      [] name \in {"dirf_infos", "dirf_additional_infos"} -> DirfKw
      [] name = "employees" -> EmployeesKw
      [] name = "employees_occupations" -> EmployeesOccupationsKw
      [] name = "occupations" -> OccupationsKw
      [] name = "service_tickets" -> ServiceTicketsKw
      [] OTHER -> { EmptyDict, "reference" :> "202301" }

\* the field keywords tried for an endpoint name of the catalog
CatalogKw(name) ==
    CASE name \in {"deductions", "purchases"} ->
            { EmptyDict, "reference" :> "202301", ("reference" :> "202301") @@ ("id" :> 5) }
      [] name \in {"dirf_infos", "dirf_additional_infos"} ->
            { EmptyDict, "reference" :> "202301" }
      [] name = "service_types" -> { EmptyDict }
      [] name = "employees" -> { FullEmployee @@ ("relatives" :> << >>) }
      [] name = "employees_occupations" ->
            { ("badge" :> "b") @@ ("vat" :> "v") @@ ("occupation_code" :> "oc") }
      [] name = "occupations" ->
            { ("code" :> "c") @@ ("name" :> "n") @@ ("description" :> "d")
              @@ ("points" :> 0) }
      [] name = "service_tickets" ->
            { ("employee_badge" :> "b") @@ ("employee_vat" :> "v")
              @@ ("employee_email" :> "e@x") @@ ("title" :> "t")
              @@ ("description" :> "d") @@ ("service_type_id" :> 4) }
      [] OTHER -> { EmptyDict, "reference" :> "202301" }

\* the (name, field keywords) pairs tried on the catalog
CatalogInputs ==
    UNION { { << n, f >> : f \in CatalogKw(n) } : n \in EndpointNames \cup UnknownNames }

\* the service keywords a caller may add to the field keywords
HttpClientKw == Opt("http_client", { HTTPRequest("https://y") })

ServicesKw ==
    { EmptyDict,
      ("http_client" :> HTTPRequest("https://y"))
        @@ ("authorization" :> Authorization("https://x", "u1", "p1", "basic1", "external")) }

\* the (base_url, authorization) pairs a caller of the factory uses
Callers ==
    { << "https://x", Authorization("https://x", "u1", "p1", "basic1", "external") >>,
      << "https://y", Authorization("https://y", "u2", "p2", "basic2", "external") >> }

\* the values a direct caller of set_services stores
ServiceValues(name) ==
    IF name = "authorization"
    THEN { Authorization("https://y", "u2", "p2", "basic2", "external") }
    ELSE { HTTPRequest("https://x") }

-----------------------------------------------------------------------------
(* State *)

\* the answers the Transport gave to the requests that were sent, in order
Heard(answers, sent) == SubSeq(answers, 1, Len(sent))

\* the concurrent callers of create_endpoint
ThreadIds == {"t1", "t2"}

\* a caller that has not called yet: its position, its arguments, the
\* Transport it built, the services its lookup found, its outcome
IdleThread ==
    [pc |-> "idle", base_url |-> "", authorization |-> NoneV, endpoint |-> "",
     kwargs |-> EmptyDict, http_client |-> NoneV, found |-> NoneV, res |-> Return(NoneV)]

NoArgs ==
    [name |-> "", base_url |-> "", authorization |-> NoneV, bearer_token |-> "",
     kwargs |-> EmptyDict, stdout |-> << >>, heard |-> << >>, before |-> << >>]

Op(op, args, res) ==
    [op |-> op, name |-> args.name, base_url |-> args.base_url,
     authorization |-> args.authorization, bearer_token |-> args.bearer_token,
     kwargs |-> args.kwargs, stdout |-> args.stdout, heard |-> args.heard,
     before |-> args.before, res |-> res]

\* what the operation before this one heard and returned, when it was the
\* same operation
Earlier(op) ==
    IF last.op = op THEN << [heard |-> last.heard, res |-> last.res] >> ELSE << >>

Init ==
    /\ runtime \in {"py313", "py314"}
    /\ services = InitialServices
    /\ req = NoneV
    /\ authz = NoneV
    /\ last = Op("init", NoArgs, Return(NoneV))
    /\ wire = << >>
    /\ calls = 0
    /\ threads = [t \in ThreadIds |-> IdleThread]

-----------------------------------------------------------------------------
(* Operations of the catalog and the factory *)

SetServices ==
    \E name \in Setters \cup {"transport"} :
      \E value \in ServiceValues(name) :
        LET r == set_services(services, name, value) IN
        /\ services' = r.services
        /\ last' = Op("set_services", [NoArgs EXCEPT !.name = name, !.kwargs = "value" :> value], r.res)
        /\ wire' = << >>
        /\ UNCHANGED <<threads, runtime, req, authz, calls>>

GetEndpoint ==
    \E in \in CatalogInputs, sv \in ServicesKw :
        LET name == in[1]
            kwargs == in[2] @@ sv
            r == get_endpoint(services, name, kwargs) IN
        /\ req' = r.value
        /\ last' = Op("get_endpoint", [NoArgs EXCEPT !.name = name, !.kwargs = kwargs], r)
        /\ wire' = << >>
        /\ UNCHANGED <<threads, runtime, services, authz, calls>>

CreateEndpoint ==
    \E caller \in Callers, in \in CatalogInputs, h \in HttpClientKw :
        LET base_url == caller[1]
            authorization == caller[2]
            endpoint == in[1]
            kwargs == in[2] @@ h
            r == create_endpoint(services, base_url, endpoint, authorization, kwargs) IN
        /\ services' = r.services
        /\ req' = r.res.value
        /\ last' = Op("create_endpoint",
                      [name |-> endpoint, base_url |-> base_url,
                       authorization |-> authorization, bearer_token |-> "",
                       kwargs |-> kwargs, stdout |-> << >>, heard |-> << >>, before |-> << >>], r.res)
        /\ wire' = << >>
        /\ UNCHANGED <<threads, runtime, authz, calls>>

-----------------------------------------------------------------------------
(* Transport: helpers/http.py is not in src/; its contract is the one the    *)
(* callers rely on: request(kwargs) returns the decoded response or raises *)

Absent == NoneV

\* what HTTPRequest.request is asked to send
Request(http_client, endpoint, method, headers, parameters, json) ==
    [base_url |-> http_client.base_url, endpoint |-> endpoint, method |-> method,
     headers |-> headers, parameters |-> parameters, json |-> json]

\* text that is parsed character by character is a sequence of characters
Chars123 == << "1", ",", "2", ",", "3" >>

Chars1x == << "1", ",", "x" >>

AuthBody(status, token, companies) ==
    [status |-> status, message |-> "m", type |-> "bearer", token |-> token,
     companies |-> companies, companies_codes |-> companies,
     companies_names |-> << "a", "b", ",", "c" >>]

\* what the Transport may answer to the authentication POST
AuthAnswers ==
    { Return(AuthBody(200, "tok1", Chars123)),
      Return(AuthBody(200, "tok2", << >>)),
      Return(AuthBody(200, "tok1", Chars1x)),
      Return(AuthBody(200, "", << >>)),
      Return(AuthBody(401, "", << >>)),
      Raise("TransportError") }

\* what the Transport may answer to an endpoint request
EndpointAnswers ==
    { Return([status |-> 200, data |-> "rows"]),
      Return([status |-> 500, data |-> "error"]),
      Raise("TransportError") }

\* an operation's outcome together with the requests it issued
Done(res, sent) == [res |-> res, wire |-> sent]

-----------------------------------------------------------------------------
(* utils/filter_clean_utils.py is not in src/ *)

DigitChars == << "0", "1", "2", "3", "4", "5", "6", "7", "8", "9" >>

IsDigit(c) == \E i \in 1 .. 10 : DigitChars[i] = c

DigitValue(c) == (CHOOSE i \in 1 .. 10 : DigitChars[i] = c) - 1

RECURSIVE SplitChars(_, _)
\* str.split(sep) on a sequence of characters
SplitChars(s, sep) ==
    IF \A i \in 1 .. Len(s) : s[i] /= sep THEN << s >>
    ELSE LET i == CHOOSE j \in 1 .. Len(s) :
                     s[j] = sep /\ \A k \in 1 .. j - 1 : s[k] /= sep
         IN  << SubSeq(s, 1, i - 1) >> \o SplitChars(SubSeq(s, i + 1, Len(s)), sep)

IsIntText(p) == Len(p) > 0 /\ \A i \in 1 .. Len(p) : IsDigit(p[i])

RECURSIVE IntOfText(_)
IntOfText(p) ==
    IF Len(p) = 0 THEN 0
    ELSE 10 * IntOfText(SubSeq(p, 1, Len(p) - 1)) + DigitValue(p[Len(p)])

\* split_str_to_list(values, dtype): an empty source gives the empty list,
\* otherwise the comma separated items, each converted to dtype
split_str_to_list(values, dtype) ==
    IF values = << >> THEN Return(<< >>)
    ELSE LET parts == SplitChars(values, ",") IN
         IF dtype = "int"
         THEN IF \A i \in 1 .. Len(parts) : IsIntText(parts[i])
              THEN Return([i \in 1 .. Len(parts) |-> IntOfText(parts[i])])
              ELSE Raise("ValueError")
         ELSE Return(parts)

\* Python truth value of a field value of declared type t
Truthy(t, v) ==
    CASE t = "str" -> v /= ""
      [] t \in {"int", "float"} -> v /= 0
      [] t \in {"List[Relative]", "List[Occurrence]"} -> v /= << >>
      [] OTHER -> TRUE

\* filter_dict_with_falsy_values(d): the items of d whose value is truthy
filter_dict_with_falsy_values(decl, d) ==
    [k \in { n \in DOMAIN d : Truthy(FieldOf(decl, n).type, d[n]) } |-> d[k]]

\* the digits of n, w wide, zero padded
DigitsOf(n, w) == [i \in 1 .. w |-> DigitChars[((n \div (10 ^ (w - i))) % 10) + 1]]

\* date.isoformat(): YYYY-MM-DD
isoformat(d) ==
    DigitsOf(d.year, 4) \o << "-" >> \o DigitsOf(d.month, 2) \o << "-" >>
      \o DigitsOf(d.day, 2)

\* convert_dict_dates_to_isoformat(d): d with every date value as its ISO text
convert_dict_dates_to_isoformat(decl, d) ==
    [k \in DOMAIN d |->
        IF FieldOf(decl, k).type = "date" THEN isoformat(d[k]) ELSE d[k]]

-----------------------------------------------------------------------------
(* tutto_api/models/authorization.py: _Auth and Authorization.auth *)

AuthFields ==
    << Req("status", "int"), Req("message", "str"), Req("type", "str"),
       Req("token", "str"), Req("companies", "List[int]"),
       Req("companies_codes", "List[int]"), Req("companies_names", "List[str]") >>

\* an _Auth without __post_init__: the company fields stay as they arrived
Auth_without_post_init(kwargs) == DataclassInit("_Auth", FALSE, AuthFields, kwargs)

\* _Auth(kwargs): the generated __init__, then __post_init__
_Auth(kwargs) ==
    LET made == DataclassInit("_Auth", FALSE, AuthFields, kwargs) IN
    IF made.outcome = "raise" THEN made
    ELSE LET o == made.value.slots
             c == split_str_to_list(o["companies"], "int")
             cc == split_str_to_list(o["companies_codes"], "int")
             cn == split_str_to_list(o["companies_names"], "str")
         IN  IF c.outcome = "raise" THEN c
             ELSE IF cc.outcome = "raise" THEN cc
             ELSE IF cn.outcome = "raise" THEN cn
             ELSE Return([cls |-> "_Auth",
                          slots |-> [o EXCEPT !["companies"] = c.value,
                                              !["companies_codes"] = cc.value,
                                              !["companies_names"] = cn.value]])

\* _Auth.as_bearer_token
as_bearer_token(auth) == "Authorization" :> ("Bearer " \o auth.slots["token"])

\* the request Authorization.__get_auth sends
AuthRequest(self) ==
    Request(self.http_client, "auth", "post",
            ("Content-Type" :> "application/json")
              @@ ("Authorization" :> ("Basic " \o self.basic_auth_token)),
            Absent,
            [user |-> self.user, password |-> self.password,
             user_type |-> self.user_type])

\* a __get_auth that hands the response on whatever its status
get_auth_any_status(self, answer) ==
    IF answer.outcome = "raise" THEN answer ELSE Return(answer.value)

\* Authorization.__get_auth: the response when its status is 200, else None
get_auth(self, answer) ==
    IF answer.outcome = "raise" THEN answer
    ELSE IF answer.value.status = 200 THEN Return(answer.value)
    ELSE Return(NoneV)

\* an auth property that falls back on the Basic token it holds when the
\* response is not a success
auth_falling_back(self, answer) ==
    LET request == get_auth(self, answer) IN
    Done(IF request.outcome = "raise" THEN request
         ELSE IF request.value /= NoneV THEN _Auth(request.value)
         ELSE _Auth([status |-> 0, message |-> "", type |-> "bearer",
                     token |-> self.basic_auth_token, companies |-> << >>,
                     companies_codes |-> << >>, companies_names |-> << >>]),
         << AuthRequest(self) >>)

\* Authorization.auth (property) of tutto_api/models: always one round trip
auth(self, answer) ==
    LET request == get_auth(self, answer) IN
    Done(IF request.outcome = "raise" THEN request
         ELSE IF request.value /= NoneV THEN _Auth(request.value)
         ELSE Return(NoneV),
         << AuthRequest(self) >>)

-----------------------------------------------------------------------------
(* tutto_api/models/endpoints.py: Endpoint.call and the variants' call *)

\* method, path and payload keyword of each variant's call
CallTable ==
    [_Deductions |-> [endpoint |-> "deductions", method |-> "get", payload |-> "parameters"],
     _Purchases |-> [endpoint |-> "purchases", method |-> "get", payload |-> "parameters"],
     _ServiceTypes |-> [endpoint |-> "service_types", method |-> "get", payload |-> "none"],
     _DirfInfos |-> [endpoint |-> "dirf_infos", method |-> "get", payload |-> "parameters"],
     _DirfAdditionalInfos |->
        [endpoint |-> "dirf_additional_infos", method |-> "get", payload |-> "parameters"],
     _Employees |-> [endpoint |-> "employees", method |-> "post", payload |-> "json"],
     _EmployeesOccupations |->
        [endpoint |-> "employees_occupations", method |-> "post", payload |-> "json"],
     _Occupations |-> [endpoint |-> "occupations", method |-> "post", payload |-> "json"],
     _ServiceTickets |-> [endpoint |-> "service_tickets", method |-> "post", payload |-> "json"]]

\* an Endpoint.call that swallows a failure of the endpoint request
Endpoint_call_catching(self, kwargs, authAnswer, answer) ==
    LET a == auth(self.slots["authorization"], authAnswer) IN
    IF a.res.outcome = "raise" THEN a
    ELSE IF a.res.value = NoneV THEN Done(Raise("AttributeError"), a.wire)
    ELSE LET headers == as_bearer_token(a.res.value)
             request == Request(self.slots["http_client"], kwargs.endpoint,
                                kwargs.method, headers, kwargs.parameters, kwargs.json)
         IN  Done(IF answer.outcome = "raise" THEN Return(NoneV) ELSE answer,
                  a.wire \o << request >>)

\* an Endpoint.call whose credential costs no request of its own
Endpoint_call_with_free_credential(self, kwargs, authAnswer, answer) ==
    LET a == auth(self.slots["authorization"], authAnswer) IN
    IF a.res.outcome = "raise" THEN a
    ELSE IF a.res.value = NoneV THEN Done(Raise("AttributeError"), a.wire)
    ELSE LET headers == as_bearer_token(a.res.value)
             request == Request(self.slots["http_client"], kwargs.endpoint,
                                kwargs.method, headers, kwargs.parameters, kwargs.json)
         IN  Done(answer, << request >>)

\* an Endpoint.call whose bearer token dates from the creation of the request
Endpoint_call_with_creation_token(self, kwargs, authAnswer, answer) ==
    LET a == auth(self.slots["authorization"], authAnswer) IN
    IF a.res.outcome = "raise" THEN a
    ELSE IF a.res.value = NoneV THEN Done(Raise("AttributeError"), a.wire)
    ELSE LET headers == "Authorization"
                          :> ("Bearer " \o self.slots["authorization"].basic_auth_token)
             request == Request(self.slots["http_client"], kwargs.endpoint,
                                kwargs.method, headers, kwargs.parameters, kwargs.json)
         IN  Done(answer, a.wire \o << request >>)

\* Endpoint.call(kwargs): the credential of this call, then the request
Endpoint_call(self, kwargs, authAnswer, answer) ==
    LET a == auth(self.slots["authorization"], authAnswer) IN
    IF a.res.outcome = "raise" THEN a
    ELSE IF a.res.value = NoneV THEN Done(Raise("AttributeError"), a.wire)
    ELSE LET headers == as_bearer_token(a.res.value)
             request == Request(self.slots["http_client"], kwargs.endpoint,
                                kwargs.method, headers, kwargs.parameters, kwargs.json)
         IN  Done(answer, a.wire \o << request >>)

\* every dataclass of models/endpoints.py is declared slots=True
Slotted(cls) == cls \in { Catalog[n] : n \in DOMAIN Catalog } \cup {"Endpoint"}

\* self.__dict__: an instance of a slots dataclass has none
ObjectDict(self) ==
    IF Slotted(self.cls) THEN Raise("AttributeError") ELSE Return(self.slots)

\* zero-argument super() inside a method of a slots=True dataclass: the class
\* is rebuilt by the decorator, so before Python 3.14 the __class__ cell names
\* the discarded class and super() raises TypeError
ZeroArgSuper(rt) == IF rt = "py314" THEN Return(NoneV) ELSE Raise("TypeError")

\* <variant>.call(): the payload from self.__dict__, then super().call(...)
Variant_call(rt, self, authAnswer, answer) ==
    LET t == CallTable[self.cls]
        d == IF t.payload = "none" THEN Return(Absent) ELSE ObjectDict(self)
        s == ZeroArgSuper(rt)
        payload == IF self.cls = "_Employees"
                   THEN convert_dict_dates_to_isoformat(VariantFields(t.endpoint), d.value)
                   ELSE filter_dict_with_falsy_values(VariantFields(t.endpoint), d.value)
    IN  IF d.outcome = "raise" THEN Done(d, << >>)
        ELSE IF s.outcome = "raise" THEN Done(s, << >>)
        ELSE Endpoint_call(self,
                 [endpoint |-> t.endpoint, method |-> t.method,
                  parameters |-> IF t.payload = "parameters" THEN payload ELSE Absent,
                  json |-> IF t.payload = "json" THEN payload ELSE Absent],
                 authAnswer, answer)

\* the caller invokes the request the factory returned
Call ==
    /\ req /= NoneV
    /\ req.cls \in DOMAIN CallTable
    /\ \E authAnswer \in AuthAnswers, answer \in EndpointAnswers :
         LET r == Variant_call(runtime, req, authAnswer, answer) IN
         /\ calls + Len(r.wire) <= MaxCalls
         /\ last' = Op("call",
                       [NoArgs EXCEPT !.name = CallTable[req.cls].endpoint,
                                      !.heard = Heard(<< authAnswer, answer >>, r.wire),
                                      !.before = Earlier("call")],
                       r.res)
         /\ wire' = r.wire
         /\ calls' = calls + Len(r.wire)
         /\ UNCHANGED <<threads, runtime, services, req, authz>>

-----------------------------------------------------------------------------
(* tutto_api/main.py: the TuttoAPI client *)

\* the parameters of Authorization.__init__ after self: none has a default
AuthorizationParams == {"base_url", "user", "password", "basic_auth_token", "user_type"}

\* Authorization called with keywords only: an unexpected keyword or a
\* missing parameter is a TypeError
Authorization_with_keywords(kwargs) ==
    IF DOMAIN kwargs /= AuthorizationParams THEN Raise("TypeError")
    ELSE Return(Authorization(kwargs["base_url"], kwargs["user"], kwargs["password"],
                              kwargs["basic_auth_token"], kwargs["user_type"]))

\* TuttoAPI.__init__(base_url, user, password, basic_auth, user_type="external")
TuttoAPI(kwargs) ==
    LET user_type == IF "user_type" \in DOMAIN kwargs THEN kwargs["user_type"]
                     ELSE "external"
        a == Authorization_with_keywords(
                 ("base_url" :> kwargs["base_url"]) @@ ("user" :> kwargs["user"])
                   @@ ("password" :> kwargs["password"])
                   @@ ("basic_auth" :> kwargs["basic_auth"])
                   @@ ("user_type" :> user_type))
    IN  IF a.outcome = "raise" THEN a
        ELSE Return([cls |-> "TuttoAPI", authorization |-> a.value,
                     base_url |-> kwargs["base_url"]])

\* the arguments tried on TuttoAPI
TuttoAPIKw ==
    { (("base_url" :> b) @@ ("user" :> "u1") @@ ("password" :> "p1")
         @@ ("basic_auth" :> "basic1")) @@ t :
      b \in {"https://x", "https://y"},
      t \in { EmptyDict, "user_type" :> "internal" } }

\* the caller constructs the client
NewTuttoAPI ==
    \E kwargs \in TuttoAPIKw :
        /\ last' = Op("TuttoAPI",
                      [NoArgs EXCEPT !.base_url = kwargs["base_url"], !.kwargs = kwargs],
                      TuttoAPI(kwargs))
        /\ wire' = << >>
        /\ UNCHANGED <<threads, runtime, services, req, authz, calls>>

Next == SetServices \/ GetEndpoint \/ CreateEndpoint \/ Call \/ NewTuttoAPI

Spec == Init /\ [][Next]_vars

-----------------------------------------------------------------------------
(* _EndpointFactory.create_endpoint called by two threads: its three      *)
(* statements are separate steps, the class attribute __services is shared *)

\* the (base_url, authorization) of each caller: different pairs
CallerOf(t) ==
    IF t = "t1"
    THEN << "https://x", Authorization("https://x", "u1", "p1", "basic1", "external") >>
    ELSE << "https://y", Authorization("https://y", "u2", "p2", "basic2", "external") >>

\* the (endpoint, kwargs) the concurrent callers ask for
RaceInputs ==
    { << "deductions", "reference" :> "202301" >>,
      << "service_types", EmptyDict >>,
      << "payrolls", EmptyDict >> }

\* create_endpoint is entered: http_client = HTTPRequest(base_url=base_url)
RaceEnter(t) ==
    /\ threads[t].pc = "idle"
    /\ \E in \in RaceInputs :
         threads' = [threads EXCEPT ![t] =
                        [IdleThread EXCEPT !.pc = "set_http_client",
                                           !.base_url = CallerOf(t)[1],
                                           !.authorization = CallerOf(t)[2],
                                           !.endpoint = in[1],
                                           !.kwargs = in[2],
                                           !.http_client = HTTPRequest(CallerOf(t)[1])]]
    /\ UNCHANGED <<runtime, services, req, authz, last, wire, calls>>

\* _EndpointCatalog.set_services(name="http_client", value=http_client)
RaceSetHttpClient(t) ==
    /\ threads[t].pc = "set_http_client"
    /\ services' = set_services(services, "http_client", threads[t].http_client).services
    /\ threads' = [threads EXCEPT ![t].pc = "set_authorization"]
    /\ UNCHANGED <<runtime, req, authz, last, wire, calls>>

\* _EndpointCatalog.set_services(name="authorization", value=authorization)
RaceSetAuthorization(t) ==
    /\ threads[t].pc = "set_authorization"
    /\ services' = set_services(services, "authorization", threads[t].authorization).services
    /\ threads' = [threads EXCEPT ![t].pc = "get_endpoint"]
    /\ UNCHANGED <<runtime, req, authz, last, wire, calls>>

\* return _EndpointCatalog.get_endpoint(name=endpoint, kwargs)
RaceGetEndpoint(t) ==
    /\ threads[t].pc = "get_endpoint"
    /\ threads' = [threads EXCEPT ![t].pc = "done",
                                  ![t].found = services,
                                  ![t].res = get_endpoint(services, threads[t].endpoint,
                                                          threads[t].kwargs)]
    /\ UNCHANGED <<runtime, services, req, authz, last, wire, calls>>

RaceInit == Init

RaceNext ==
    \E t \in ThreadIds :
        \/ RaceEnter(t)
        \/ RaceSetHttpClient(t)
        \/ RaceSetAuthorization(t)
        \/ RaceGetEndpoint(t)

RaceSpec == RaceInit /\ [][RaceNext]_vars

-----------------------------------------------------------------------------
(* tutto_api/src/models/endpoints.py: the older factory and its requests *)

\* the endpoints table of EndpointFactory.create_endpoint
LegacyEndpoints ==
    [deductions |-> "Deductions",
     purchases |-> "Purchases",
     service_types |-> "ServiceTypes",
     dirf_infos |-> "DirfInfos",
     dirf_additional_infos |-> "DirfAdditionalInfos",
     auth |-> "Auth",
     employees |-> "Employees",
     employees_occupations |-> "EmployeesOccupations",
     occupations |-> "Occupations",
     service_tickets |-> "ServiceTickets"]

\* the two fields every older request declares first
LegacyServiceFields ==
    << Req("http_client", "HTTPRequest"), Req("bearer_token", "str") >>

\* Auth: bearer_token is field(default="", init=False)
LegacyAuthFields ==
    << Req("http_client", "HTTPRequest"),
       [name |-> "bearer_token", type |-> "str", init |-> FALSE, required |-> FALSE,
        default |-> ""],
       Req("username", "str"), Req("password", "str"), Req("user_type", "str") >>

LegacyFields(name) ==
    IF name = "auth" THEN LegacyAuthFields ELSE LegacyServiceFields \o OwnFields(name)

\* EndpointFactory.create_endpoint(base_url, endpoint, bearer_token, kwargs)
EndpointFactory_create_endpoint(base_url, endpoint, bearer_token, kwargs) ==
    LET endpoint_class ==
            IF endpoint \in DOMAIN LegacyEndpoints THEN LegacyEndpoints[endpoint]
            ELSE "None"
    IN  IF endpoint_class /= "None"
        THEN IF {"http_client", "bearer_token"} \cap DOMAIN kwargs /= {}
             THEN Raise("TypeError")
             ELSE DataclassInit(endpoint_class, FALSE, LegacyFields(endpoint),
                                ("http_client" :> HTTPRequest(base_url))
                                  @@ ("bearer_token" :> bearer_token) @@ kwargs)
        ELSE Return(NoneV)

\* path, method and payload keyword of each older request's call
LegacyCallTable ==
    [Deductions |-> [name |-> "deductions", endpoint |-> "/deductions", method |-> "get", payload |-> "parameters"],
     Purchases |-> [name |-> "purchases", endpoint |-> "/purchases", method |-> "get", payload |-> "parameters"],
     ServiceTypes |-> [name |-> "service_types", endpoint |-> "/service_types", method |-> "get", payload |-> "none"],
     DirfInfos |-> [name |-> "dirf_infos", endpoint |-> "/dirf_infos", method |-> "get", payload |-> "parameters"],
     DirfAdditionalInfos |->
        [name |-> "dirf_additional_infos", endpoint |-> "/dirf_additional_infos", method |-> "get", payload |-> "parameters"],
     Auth |-> [name |-> "auth", endpoint |-> "/auth", method |-> "post", payload |-> "json"],
     Employees |-> [name |-> "employees", endpoint |-> "/employees", method |-> "post", payload |-> "json"],
     EmployeesOccupations |->
        [name |-> "employees_occupations", endpoint |-> "/employees_occupations", method |-> "post", payload |-> "json"],
     Occupations |-> [name |-> "occupations", endpoint |-> "/occupations", method |-> "post", payload |-> "json"],
     ServiceTickets |-> [name |-> "service_tickets", endpoint |-> "/service_tickets", method |-> "post", payload |-> "json"]]

\* dict(filter(itemgetter(1), payload.items())): the items whose value is truthy
FilterItems(decl, payload) ==
    [k \in { n \in DOMAIN payload : Truthy(FieldOf(decl, n).type, payload[n]) } |->
        payload[k]]

\* the dict a relative becomes in Employees.call
RelativeDict(relative) ==
    [name |-> relative.name,
     relationship |-> relative.relationship,
     birth_date |-> isoformat(relative.birth_date),
     cpf |-> relative.cpf,
     rg |-> relative.rg,
     rg_issuer |-> relative.rg_issuer,
     rg_issuer_state |-> relative.rg_issuer_state,
     rg_issuer_date |-> isoformat(relative.rg_issuer_date)]

\* the dict an occurrence becomes in Employees.call
OccurrenceDict(occurrence) ==
    [type |-> occurrence.type,
     start_date |-> isoformat(occurrence.start_date),
     end_date |-> isoformat(occurrence.end_date),
     absence_reason_code |-> occurrence.absence_reason_code,
     absence_reason_name |-> occurrence.absence_reason_name]

\* [f(x) for x in xs if xs]: every element, in order (xs is truthy while iterated)
RelativesPayload(xs) ==
    IF xs /= << >> THEN [i \in 1 .. Len(xs) |-> RelativeDict(xs[i])] ELSE << >>

OccurrencesPayload(xs) ==
    IF xs /= << >> THEN [i \in 1 .. Len(xs) |-> OccurrenceDict(xs[i])] ELSE << >>

\* the payload Employees.call spells out key by key
EmployeesPayload(self) ==
    [k \in FieldNames(EmployeesFields) |->
        CASE k = "relatives" -> RelativesPayload(self.slots[k])
          [] k = "occurrences" -> OccurrencesPayload(self.slots[k])
          [] FieldOf(EmployeesFields, k).type = "date" -> isoformat(self.slots[k])
          [] OTHER -> self.slots[k]]

\* the payload dict each older call builds before it filters or sends it
LegacyPayload(self) ==
    CASE self.cls = "Employees" -> EmployeesPayload(self)
      [] self.cls = "Auth" ->
            [user |-> self.slots["username"], password |-> self.slots["password"],
             user_type |-> self.slots["user_type"]]
      [] OTHER ->
            [k \in FieldNames(OwnFields(LegacyCallTable[self.cls].name)) |-> self.slots[k]]

\* the request an older <variant>.call() hands to the Transport
LegacyRequest(self) ==
    LET t == LegacyCallTable[self.cls]
        payload == IF self.cls \in {"Employees", "Auth"} THEN LegacyPayload(self)
                   ELSE FilterItems(OwnFields(t.name), LegacyPayload(self))
    IN  Request(self.slots["http_client"], t.endpoint, t.method,
                IF self.cls = "Auth" THEN Absent
                ELSE "Authorization" :> ("Bearer " \o self.slots["bearer_token"]),
                IF t.payload = "parameters" THEN payload ELSE Absent,
                IF t.payload = "json" THEN payload ELSE Absent)

\* <variant>.call() of the older requests: one request, its answer returned as is
Legacy_call(self, answer) == Done(answer, << LegacyRequest(self) >>)

\* the (base_url, bearer_token) pairs a caller of the older factory uses
LegacyCallers == { << "https://x", "tokA" >>, << "https://y", "tokB" >> }

AuthKw ==
    { ("username" :> "u1") @@ ("password" :> "p1") @@ ("user_type" :> "external") }

\* the (name, field keywords) pairs tried on the older factory
LegacyInputs ==
    UNION { { << n, f >> : f \in FieldKw(n) } : n \in EndpointNames \cup UnknownNames }
    \cup { << "auth", f >> : f \in AuthKw }

LegacyCreate ==
    \E caller \in LegacyCallers, in \in LegacyInputs :
        LET r == EndpointFactory_create_endpoint(caller[1], in[1], caller[2], in[2]) IN
        /\ req' = r.value
        /\ last' = Op("legacy_create_endpoint",
                      [NoArgs EXCEPT !.name = in[1], !.base_url = caller[1],
                                     !.bearer_token = caller[2], !.kwargs = in[2]], r)
        /\ wire' = << >>
        /\ UNCHANGED <<threads, runtime, services, authz, calls>>

\* Auth(http_client=..., username=..., password=..., user_type=...): the
\* older auth request built directly; the factory cannot build it, because
\* it always passes bearer_token, which Auth declares with init=False
LegacyConstructAuth ==
    \E caller \in LegacyCallers, k \in AuthKw :
        LET kwargs == ("http_client" :> HTTPRequest(caller[1])) @@ k
            r == DataclassInit("Auth", FALSE, LegacyAuthFields, kwargs) IN
        /\ req' = r.value
        /\ last' = Op("legacy_Auth",
                      [NoArgs EXCEPT !.name = "auth", !.base_url = caller[1],
                                     !.kwargs = kwargs], r)
        /\ wire' = << >>
        /\ UNCHANGED <<threads, runtime, services, authz, calls>>

LegacyCall ==
    /\ req /= NoneV
    /\ req.cls \in DOMAIN LegacyCallTable
    /\ calls < MaxCalls
    /\ \E answer \in (IF req.cls = "Auth" THEN AuthAnswers ELSE EndpointAnswers) :
         LET r == Legacy_call(req, answer) IN
         /\ last' = Op("legacy_call",
                       [NoArgs EXCEPT !.name = LegacyCallTable[req.cls].name,
                                      !.heard = Heard(<< answer >>, r.wire)], r.res)
         /\ wire' = r.wire
         /\ calls' = calls + Len(r.wire)
         /\ UNCHANGED <<threads, runtime, services, req, authz>>

LegacyInit == Init /\ runtime = "py313"

LegacyNext == LegacyCreate \/ LegacyConstructAuth \/ LegacyCall

LegacySpec == LegacyInit /\ [][LegacyNext]_vars

-----------------------------------------------------------------------------
(* tutto_api_client/models/authorization.py: Authorization with a bearer token *)

BothTokensWarning ==
    "Auth Warning: Both basic auth and bearer token were provided. Using bearer token."

\* the outcome of a check together with the lines it printed
Checked(res, printed) == [res |-> res, stdout |-> printed]

\* __check_init with its first error left out
check_init_without_token_check(self) ==
    IF self.bearer_token = "" /\ ~ (self.user /= "" /\ self.password /= "")
    THEN Checked(Raise("ValueError"), << >>)
    ELSE Checked(Return(NoneV),
                 IF self.bearer_token /= "" /\ self.basic_auth_token /= ""
                 THEN << BothTokensWarning >> ELSE << >>)

\* __check_init asking for the user or the password instead of both
check_init_user_or_password(self) ==
    IF self.basic_auth_token = "" /\ self.bearer_token = ""
    THEN Checked(Raise("ValueError"), << >>)
    ELSE IF self.bearer_token = "" /\ ~ (self.user /= "" \/ self.password /= "")
    THEN Checked(Raise("ValueError"), << >>)
    ELSE Checked(Return(NoneV),
                 IF self.bearer_token /= "" /\ self.basic_auth_token /= ""
                 THEN << BothTokensWarning >> ELSE << >>)

\* Authorization.__check_init: two errors, then one warning
check_init(self) ==
    IF self.basic_auth_token = "" /\ self.bearer_token = ""
    THEN Checked(Raise("ValueError"), << >>)
    ELSE IF self.bearer_token = "" /\ ~ (self.user /= "" /\ self.password /= "")
    THEN Checked(Raise("ValueError"), << >>)
    ELSE Checked(Return(NoneV),
                 IF self.bearer_token /= "" /\ self.basic_auth_token /= ""
                 THEN << BothTokensWarning >> ELSE << >>)

\* Authorization.__init__: stores its arguments, then checks them
ClientAuthorization(base_url, user, user_type, password, basic_auth_token, bearer_token) ==
    LET self == [cls |-> "Authorization",
                 http_client |-> HTTPRequest(base_url),
                 user |-> user,
                 user_type |-> user_type,
                 password |-> password,
                 basic_auth_token |-> basic_auth_token,
                 bearer_token |-> bearer_token]
        c == check_init(self)
    IN  Checked(IF c.res.outcome = "raise" THEN c.res ELSE Return(self), c.stdout)

\* the credential auth builds from a user supplied bearer token
SuppliedCredential(self) ==
    _Auth([status |-> 0,
           message |-> "Bearer token was user provided",
           type |-> "bearer",
           token |-> self.bearer_token,
           companies |-> << >>,
           companies_codes |-> << >>,
           companies_names |-> << >>])

\* an auth property that ignores the supplied bearer token
client_auth_always_fetching(self, answer) == auth(self, answer)

\* an auth property that fetches even when a bearer token was supplied
client_auth_fetching_first(self, answer) ==
    IF self.bearer_token /= ""
    THEN Done(SuppliedCredential(self), << AuthRequest(self) >>)
    ELSE auth(self, answer)

\* an auth property that answers without asking the Transport
client_auth_without_fetch(self, answer) ==
    IF self.bearer_token /= "" THEN Done(SuppliedCredential(self), << >>)
    ELSE Done(auth(self, answer).res, << >>)

\* Authorization.auth (property): the bearer token when one was supplied,
\* otherwise one authentication round trip
client_auth(self, answer) ==
    IF self.bearer_token /= "" THEN Done(SuppliedCredential(self), << >>)
    ELSE auth(self, answer)

\* the arguments tried on the constructor
ClientConfigs ==
    [base_url : {"https://x"}, user : {"", "u1"}, user_type : {"external", "internal"},
     password : {"", "p1"}, basic_auth_token : {"", "basic1"},
     bearer_token : {"", "tokU"}]

Construct ==
    \E k \in ClientConfigs :
        LET r == ClientAuthorization(k.base_url, k.user, k.user_type, k.password,
                                     k.basic_auth_token, k.bearer_token) IN
        /\ authz' = r.res.value
        /\ last' = Op("Authorization",
                      [NoArgs EXCEPT !.base_url = k.base_url, !.kwargs = k,
                                     !.stdout = r.stdout], r.res)
        /\ wire' = << >>
        /\ UNCHANGED <<threads, runtime, services, req, calls>>

CurrentCredential ==
    /\ authz /= NoneV
    /\ \E answer \in AuthAnswers :
         LET r == client_auth(authz, answer) IN
         /\ calls + Len(r.wire) <= MaxCalls
         /\ last' = Op("auth",
                       [NoArgs EXCEPT !.heard = Heard(<< answer >>, r.wire),
                                      !.before = Earlier("auth")],
                       r.res)
         /\ wire' = r.wire
         /\ calls' = calls + Len(r.wire)
         /\ UNCHANGED <<threads, runtime, services, req, authz>>

AuthInit == Init /\ runtime = "py313"

AuthNext == Construct \/ CurrentCredential

AuthSpec == AuthInit /\ [][AuthNext]_vars

-----------------------------------------------------------------------------
(* Properties of the catalog and the factory, checked under Spec *)

\* the field keywords hold every required field of variant name and nothing else
FieldsGiven(name, kwargs) ==
    /\ RequiredNames(OwnFields(name)) \subseteq DOMAIN kwargs
    /\ DOMAIN kwargs \subseteq FieldNames(OwnFields(name))

\* the method the endpoint table gives a name
TableMethod(name) ==
    IF name \in {"deductions", "purchases", "service_types", "dirf_infos",
                 "dirf_additional_infos"}
    THEN "get" ELSE "post"

\* C1: create with a catalog name and that variant's required fields returns a
\* request of that variant, and invoking a request sends the method and the
\* path the endpoint table gives its name.
CreateReturnsVariant ==
    /\ (last.op = "create_endpoint" /\ last.name \in EndpointNames
          /\ FieldsGiven(last.name, last.kwargs))
       => (last.res.outcome = "return" /\ last.res.value.cls = Catalog[last.name])
    /\ last.op = "call"
       => (/\ wire /= << >>
           /\ wire[Len(wire)].method = TableMethod(last.name)
           /\ wire[Len(wire)].endpoint = last.name)

\* C2: for a catalog name, the request create returns is bound to the
\* Transport built for the base_url of that call and to the Authorizer of
\* that call.
CreateBindsServices ==
    (last.op = "create_endpoint" /\ last.name \in EndpointNames
       /\ FieldsGiven(last.name, last.kwargs))
    => (/\ last.res.outcome = "return"
        /\ last.res.value.slots["http_client"] = HTTPRequest(last.base_url)
        /\ last.res.value.slots["authorization"] = last.authorization)

\* C3: for a name that is not in the catalog, create does not raise: it
\* returns a placeholder object bound to the Transport and the Authorizer.
UnknownNameGivesPlaceholder ==
    (last.op = "create_endpoint" /\ last.name \notin EndpointNames)
    => (/\ last.res.outcome = "return"
        /\ last.res.value /= NoneV
        /\ last.res.value.slots["http_client"] = HTTPRequest(last.base_url)
        /\ last.res.value.slots["authorization"] = last.authorization)

\* C4: a lookup made while the Transport slot or the Authorizer slot still
\* holds its initial None fails with the "services not set" ValueError.
UnsetServicesRejected ==
    (last.op = "get_endpoint"
       /\ (services.http_client = NoneV \/ services.authorization = NoneV))
    => (last.res.outcome = "raise" /\ last.res.error = "ValueError")

\* What the code does instead (C1, C2, C3): whatever the name and the field
\* keywords, create raises TypeError and returns nothing.
CreateAlwaysRaisesTypeError ==
    last.op = "create_endpoint"
    => (last.res.outcome = "raise" /\ last.res.error = "TypeError")

\* What the code does instead (C4): get_endpoint never raises ValueError, and
\* with both service keywords passed by the caller it returns a request while
\* the slots are unset.
LookupNeverChecksSlots ==
    last.op = "get_endpoint" => last.res.error /= "ValueError"

LookupReturnsWithUnsetSlots ==
    /\ last.op = "get_endpoint"
    /\ services = InitialServices
    /\ last.res.outcome = "return"

-----------------------------------------------------------------------------
(* Properties of the payloads: violated under Spec, where the variants'     *)
(* call raises before anything is sent; they hold of the older requests     *)
(* (LegacySpec) except where noted                                          *)

IsInvoke == last.op \in {"call", "legacy_call"}

\* the fields of the invoked request whose value is not the zero of its type
NonDefaultFields(decl) ==
    { n \in FieldNames(decl) : Truthy(FieldOf(decl, n).type, req.slots[n]) }

\* payload carries exactly the fields named keys, each with the request's value
Carries(payload, keys) ==
    /\ payload /= Absent
    /\ DOMAIN payload = keys
    /\ \A k \in keys : payload[k] = req.slots[k]

\* C5: every GET variant with fields sends as query parameters exactly the
\* request fields whose value differs from the default ('' or 0).
QuerySendsNonDefaultFields ==
    (IsInvoke /\ last.name \in {"deductions", "purchases", "dirf_infos",
                                "dirf_additional_infos"})
    => (/\ wire /= << >>
        /\ wire[Len(wire)].method = "get"
        /\ wire[Len(wire)].json = Absent
        /\ Carries(wire[Len(wire)].parameters, NonDefaultFields(OwnFields(last.name))))

\* C6: the JSON body of employees_occupations, occupations and
\* service_tickets holds every required field whatever its value, and an
\* optional field exactly when its value differs from its default.
BodyKeepsRequiredFields ==
    (IsInvoke /\ last.name \in {"employees_occupations", "occupations",
                                "service_tickets"})
    => (/\ wire /= << >>
        /\ wire[Len(wire)].method = "post"
        /\ Carries(wire[Len(wire)].json,
                   RequiredNames(OwnFields(last.name))
                     \cup NonDefaultFields(OwnFields(last.name))))

\* What the older code does instead (C6): the body holds exactly the truthy
\* fields, so a required field equal to '' or 0 is left out.
BodyDropsFalsyFields ==
    (last.op = "legacy_call"
       /\ last.name \in {"employees_occupations", "occupations", "service_tickets"})
    => Carries(wire[Len(wire)].json, NonDefaultFields(OwnFields(last.name)))

RequiredZeroDropped ==
    /\ last.op = "legacy_call"
    /\ last.name = "occupations"
    /\ req.slots["points"] = 0
    /\ "points" \notin DOMAIN wire[1].json

\* C7: the employees body always holds every employee field, falsy or not,
\* and the keys relatives and occurrences: an empty list is sent as an empty
\* array, a list of n records as n records in the same order.
EmployeesBodyComplete ==
    (IsInvoke /\ last.name = "employees")
    => (/\ wire /= << >>
        /\ wire[Len(wire)].method = "post"
        /\ wire[Len(wire)].json /= Absent
        /\ LET body == wire[Len(wire)].json IN
           /\ DOMAIN body = FieldNames(EmployeesFields)
           /\ \A k \in RequiredNames(EmployeesFields) :
                FieldOf(EmployeesFields, k).type /= "date" => body[k] = req.slots[k]
           /\ Len(body["relatives"]) = Len(req.slots["relatives"])
           /\ \A i \in 1 .. Len(body["relatives"]) :
                body["relatives"][i].name = req.slots["relatives"][i].name
           /\ Len(body["occurrences"]) = Len(req.slots["occurrences"])
           /\ \A i \in 1 .. Len(body["occurrences"]) :
                body["occurrences"][i].type = req.slots["occurrences"][i].type)

\* What the code does instead (C5, C6, C7): a call of a variant with fields
\* raises AttributeError and sends nothing.
VariantCallRaises ==
    (last.op = "call" /\ last.name /= "service_types")
    => (last.res.outcome = "raise" /\ last.res.error = "AttributeError" /\ wire = << >>)

EmployeesSentInOrder ==
    /\ last.op = "legacy_call"
    /\ last.name = "employees"
    /\ Len(req.slots["relatives"]) = 2
    /\ req.slots["relatives"][1] /= req.slots["relatives"][2]
    /\ wire[1].json["relatives"][1].name = req.slots["relatives"][1].name

-----------------------------------------------------------------------------
(* Properties of the Authorization constructor, checked under AuthSpec *)

Constructed == last.op = "Authorization"

Rejected == last.res.outcome = "raise" /\ last.res.error = "ValueError" /\ authz = NoneV

\* C8: constructing an Authorization with both the basic-auth token and the
\* bearer token empty fails with ValueError, whatever user and password are.
NoTokenRejected ==
    (Constructed /\ last.kwargs.basic_auth_token = "" /\ last.kwargs.bearer_token = "")
    => Rejected

NoTokenRejectedWitness ==
    /\ Constructed
    /\ last.kwargs.basic_auth_token = "" /\ last.kwargs.bearer_token = ""
    /\ last.kwargs.user /= "" /\ last.kwargs.password /= ""
    /\ Rejected

\* C9: with an empty bearer token and a non-empty basic-auth token the
\* construction fails with ValueError when user or password is empty and
\* succeeds when both are non-empty.
BasicNeedsUserAndPassword ==
    (Constructed /\ last.kwargs.bearer_token = "" /\ last.kwargs.basic_auth_token /= "")
    => IF last.kwargs.user = "" \/ last.kwargs.password = ""
       THEN Rejected
       ELSE /\ last.res.outcome = "return"
            /\ authz = last.res.value
            /\ authz.user = last.kwargs.user
            /\ authz.password = last.kwargs.password
            /\ authz.basic_auth_token = last.kwargs.basic_auth_token

BasicNeedsUserAndPasswordWitness ==
    /\ Constructed
    /\ last.kwargs.bearer_token = "" /\ last.kwargs.basic_auth_token /= ""
    /\ last.kwargs.user /= "" /\ last.kwargs.password = ""
    /\ Rejected

\* C10: constructing an Authorization with both tokens succeeds and prints a
\* warning without raising, and every later auth returns the credential built
\* from the bearer token, never one fetched with Basic auth.
BearerWinsOverBasic ==
    /\ (Constructed /\ last.kwargs.bearer_token /= "" /\ last.kwargs.basic_auth_token /= "")
       => (/\ last.res.outcome = "return"
           /\ authz = last.res.value
           /\ last.stdout = << BothTokensWarning >>)
    /\ (last.op = "auth" /\ authz.bearer_token /= "" /\ authz.basic_auth_token /= "")
       => (/\ last.res.outcome = "return"
           /\ last.res.value /= NoneV
           /\ last.res.value.slots["token"] = authz.bearer_token
           /\ last.res.value.slots["status"] = 0
           /\ wire = << >>)

BearerWinsOverBasicWitness ==
    /\ last.op = "auth"
    /\ authz.bearer_token /= "" /\ authz.basic_auth_token /= ""
    /\ authz.user /= "" /\ authz.password /= ""
    /\ last.res.value.slots["token"] = authz.bearer_token

-----------------------------------------------------------------------------
(* Properties of Authorization.auth of the client, checked under AuthSpec *)

AuthCalled == last.op = "auth"

Pinned == authz /= NoneV /\ authz.bearer_token /= ""

\* C11: when a bearer token was supplied at construction, every auth call
\* sends no request and returns a credential with status 0, the supplied
\* bearer token as its token and three empty company lists.
PinnedBearerSendsNothing ==
    (AuthCalled /\ Pinned)
    => /\ wire = << >>
       /\ last.res.outcome = "return"
       /\ last.res.value /= NoneV
       /\ last.res.value.cls = "_Auth"
       /\ last.res.value.slots["status"] = 0
       /\ last.res.value.slots["token"] = authz.bearer_token
       /\ last.res.value.slots["companies"] = << >>
       /\ last.res.value.slots["companies_codes"] = << >>
       /\ last.res.value.slots["companies_names"] = << >>

PinnedBearerSendsNothingWitness ==
    /\ AuthCalled /\ Pinned
    /\ authz.basic_auth_token = ""
    /\ authz.user = "" /\ authz.password = ""
    /\ wire = << >>
    /\ last.res.value.slots["status"] = 0

\* C12: with no bearer token supplied nothing is cached: every auth call,
\* also after a call that succeeded, sends exactly one POST to the auth path,
\* so n calls send n requests.
AuthNeverCached ==
    [][ (last'.op = "auth" /\ authz.bearer_token = "")
        => /\ calls' = calls + 1
           /\ Len(wire') = 1
           /\ wire'[1] = AuthRequest(authz)
           /\ wire'[1].method = "post"
           /\ wire'[1].endpoint = "auth" ]_vars

AuthNeverCachedWitness ==
    /\ AuthCalled /\ ~ Pinned
    /\ calls >= 2
    /\ wire = << AuthRequest(authz) >>
    /\ last.res.outcome = "return" /\ last.res.value /= NoneV

\* the auth call fetched, and the Transport answered with a response
Fetched == AuthCalled /\ ~ Pinned /\ Len(last.heard) = 1 /\ last.heard[1].outcome = "return"

\* C13: when the authentication response has a status other than 200, auth
\* returns None and does not raise; when the status is 200 it returns the
\* credential built from the response body.
NonSuccessGivesNoCredential ==
    Fetched
    => LET body == last.heard[1].value IN
       IF body.status /= 200
       THEN last.res = Return(NoneV)
       ELSE /\ last.res = _Auth(body)
            /\ last.res.outcome = "return"
               => /\ last.res.value.cls = "_Auth"
                  /\ last.res.value.slots["status"] = 200
                  /\ last.res.value.slots["token"] = body.token
                  /\ last.res.value.slots["message"] = body.message
                  /\ last.res.value.slots["type"] = body.type

NonSuccessGivesNoCredentialWitness ==
    /\ Fetched
    /\ last.heard[1].value.status = 401
    /\ last.res.outcome = "return"
    /\ last.res.value = NoneV

\* the other half of C13 happens as well: a 200 answer gives a credential
SuccessGivesCredential ==
    /\ Fetched
    /\ last.heard[1].value.status = 200
    /\ last.res.outcome = "return"
    /\ last.res.value.slots["token"] = "tok1"

-----------------------------------------------------------------------------
(* Properties of Endpoint.call, checked under Spec *)

Invoked == last.op = "call"

\* the call asked for a credential and the answer's status was not 200
AuthRefused ==
    /\ Invoked
    /\ Len(last.heard) >= 1
    /\ last.heard[1].outcome = "return"
    /\ last.heard[1].value.status /= 200

\* C14: invoking a request when the authentication did not succeed raises no
\* error of the library's own: the endpoint request is still handed to the
\* Transport and the caller gets what the Transport returns or raises for it.
RefusedAuthStillSends ==
    AuthRefused
    => /\ Len(wire) = 2
       /\ Len(last.heard) = 2
       /\ wire[2].endpoint = last.name
       /\ last.res = last.heard[2]

\* what the code does instead: None has no as_bearer_token, the call raises
\* AttributeError after the authentication request and sends nothing else
RefusedAuthRaisesAttributeError ==
    AuthRefused
    => /\ last.res = Raise("AttributeError")
       /\ Len(wire) = 1
       /\ wire[1].endpoint = "auth"

RefusedAuthReached == AuthRefused /\ last.res = Raise("AttributeError")

LegacyInvokeMakesOneRoundTrip ==
    last.op = "legacy_call" => (Len(wire) = 1 /\ Len(last.heard) = 1 /\ last.res = last.heard[1])

-----------------------------------------------------------------------------
(* Properties of the headers, checked under Spec and LegacySpec *)

IsAuthFetch(r) == r.endpoint \in {"auth", "/auth"}

\* the basic-auth tokens the callers of this model configure
KnownBasicTokens == {"basic1", "basic2"}

HasAuthorization(r) == r.headers /= Absent /\ "Authorization" \in DOMAIN r.headers

\* the token of the credential in force when the request was sent: the one
\* the call fetched, or the one an older request was built with
CurrentToken ==
    IF req.cls \in DOMAIN LegacyCallTable THEN req.slots["bearer_token"]
    ELSE last.heard[1].value.token

\* C16: every request other than the authentication fetch is sent with the
\* header Authorization = 'Bearer ' + token of the current credential, and
\* the authentication fetch with Authorization = 'Basic ' + basic-auth token.
EveryRequestAuthorized ==
    \A i \in 1 .. Len(wire) :
        /\ HasAuthorization(wire[i])
        /\ IF IsAuthFetch(wire[i])
           THEN wire[i].headers["Authorization"] \in { "Basic " \o t : t \in KnownBasicTokens }
           ELSE wire[i].headers["Authorization"] = "Bearer " \o CurrentToken

\* the older Auth.call sends its request without any header
LegacyAuthSentBare ==
    /\ last.op = "legacy_call" /\ last.name = "auth"
    /\ Len(wire) = 1
    /\ wire[1].endpoint = "/auth"
    /\ wire[1].headers = Absent

\* every other older request carries 'Bearer ' + the token it was built with
LegacyRequestsCarryBearer ==
    \A i \in 1 .. Len(wire) :
        ~ IsAuthFetch(wire[i])
        => /\ HasAuthorization(wire[i])
           /\ wire[i].headers["Authorization"] = "Bearer " \o req.slots["bearer_token"]

\* the requests of Endpoint.call and of Authorization.__get_auth carry the
\* headers of C16
NewRequestsAuthorized ==
    Invoked
    => \A i \in 1 .. Len(wire) :
          /\ HasAuthorization(wire[i])
          /\ IF i = 1
             THEN /\ IsAuthFetch(wire[i])
                  /\ wire[i].headers["Authorization"]
                        = "Basic " \o req.slots["authorization"].basic_auth_token
             ELSE /\ ~ IsAuthFetch(wire[i])
                  /\ wire[i].headers["Authorization"]
                        = "Bearer " \o last.heard[1].value.token

-----------------------------------------------------------------------------
(* Properties of the Transport's results, checked under Spec and AuthSpec *)

AuthFailureReachesInvoker ==
    /\ Invoked
    /\ Len(wire) = 1
    /\ last.heard[1] = Raise("TransportError")
    /\ last.res = Raise("TransportError")

\* the client's auth lets a failure of the Transport through as well
AuthFailureUnchanged ==
    (AuthCalled /\ Len(last.heard) = 1 /\ last.heard[1].outcome = "raise")
    => (last.res = last.heard[1] /\ Len(wire) = 1)

AuthFailureReachesCaller ==
    AuthCalled /\ Len(last.heard) = 1 /\ last.res = Raise("TransportError")

-----------------------------------------------------------------------------
(* Properties of the authentication request, checked under AuthSpec, Spec *)
(* and LegacySpec                                                         *)

\* C18: the authentication fetch is a POST to the auth path whose JSON body
\* is exactly {user, password, user_type} and whose Authorization header is
\* 'Basic ' followed by the configured basic-auth token.
AuthFetchIsBasicPost ==
    \A i \in 1 .. Len(wire) :
        IsAuthFetch(wire[i])
        => /\ wire[i].method = "post"
           /\ wire[i].parameters = Absent
           /\ DOMAIN wire[i].json = {"user", "password", "user_type"}
           /\ HasAuthorization(wire[i])
           /\ wire[i].headers["Authorization"] \in { "Basic " \o t : t \in KnownBasicTokens }

\* the same for an Authorization object self, field by field
FetchOf(self, r) ==
    /\ r.base_url = self.http_client.base_url
    /\ r.endpoint = "auth"
    /\ r.method = "post"
    /\ r.parameters = Absent
    /\ r.json = [user |-> self.user, password |-> self.password,
                 user_type |-> self.user_type]
    /\ r.headers = ("Content-Type" :> "application/json")
                     @@ ("Authorization" :> ("Basic " \o self.basic_auth_token))

\* Authorization.auth of the client sends the fetch of C18
ClientFetchIsBasicPost ==
    (AuthCalled /\ ~ Pinned) => (Len(wire) = 1 /\ FetchOf(authz, wire[1]))

ClientFetchSent == AuthCalled /\ ~ Pinned /\ Len(wire) = 1 /\ wire[1].json.user = "u1"

\* Authorization.auth of tutto_api/models sends the fetch of C18
InvokeFetchIsBasicPost ==
    (Invoked /\ Len(wire) >= 1) => FetchOf(req.slots["authorization"], wire[1])

\* the older Auth.call sends the body of C18 to /auth, without the header
LegacyAuthBody ==
    (last.op = "legacy_call" /\ last.name = "auth")
    => /\ wire[1].method = "post"
       /\ wire[1].json = [user |-> req.slots["username"],
                          password |-> req.slots["password"],
                          user_type |-> req.slots["user_type"]]
       /\ ~ HasAuthorization(wire[1])

-----------------------------------------------------------------------------
(* Properties of the credential, checked under AuthSpec *)

CredentialReturned == AuthCalled /\ last.res.outcome = "return" /\ last.res.value /= NoneV

\* C19: every credential auth returns has a non-empty token, both when it was
\* fetched with a 200 status and when it was built from a supplied bearer token.
ReturnedTokenNonEmpty ==
    CredentialReturned => last.res.value.slots["token"] /= ""

\* what the code guarantees: the token of a credential built from the
\* supplied bearer token is that token, which the auth property found truthy
SuppliedTokenNonEmpty ==
    (CredentialReturned /\ Pinned) => last.res.value.slots["token"] /= ""

\* a fetched credential carries the token of the response, whatever it is
FetchedTokenAsAnswered ==
    (CredentialReturned /\ ~ Pinned)
    => last.res.value.slots["token"] = last.heard[1].value.token

EmptyTokenReturned ==
    /\ CredentialReturned /\ ~ Pinned
    /\ last.res.value.slots["status"] = 200
    /\ last.res.value.slots["token"] = ""

\* the call fetched and the answer's status was 200
Fetched200 == Fetched /\ last.heard[1].value.status = 200

\* C20: building a credential parses each delimiter-joined company field into
\* a list: companies '1,2,3' gives [1, 2, 3], an empty source gives the empty
\* list, names are split into strings, and non-numeric content in companies
\* or companies_codes raises ValueError instead of giving a credential.
CompanyFieldsParsed ==
    Fetched200
    => LET body == last.heard[1].value
           made == last.res.value.slots
       IN  /\ (body.companies = Chars123 /\ body.companies_codes = Chars123)
              => /\ last.res.outcome = "return"
                 /\ made["companies"] = << 1, 2, 3 >>
                 /\ made["companies_codes"] = << 1, 2, 3 >>
           /\ (body.companies = << >> /\ body.companies_codes = << >>)
              => /\ last.res.outcome = "return"
                 /\ made["companies"] = << >>
                 /\ made["companies_codes"] = << >>
           /\ (body.companies = Chars1x \/ body.companies_codes = Chars1x)
              => last.res = Raise("ValueError")
           /\ last.res.outcome = "return"
              => /\ made["companies_names"] = << << "a", "b" >>, << "c" >> >>
                 /\ \A i \in 1 .. Len(made["companies"]) : made["companies"][i] \in Nat

CompanyFieldsParsedWitness ==
    /\ Fetched200
    /\ last.heard[1].value.companies = Chars123
    /\ last.res.outcome = "return"
    /\ last.res.value.slots["companies"] = << 1, 2, 3 >>

EmptyCompaniesParsed ==
    /\ Fetched200
    /\ last.heard[1].value.companies = << >>
    /\ last.res.outcome = "return"
    /\ last.res.value.slots["companies"] = << >>

MalformedCompaniesRaised ==
    /\ Fetched200
    /\ last.heard[1].value.companies = Chars1x
    /\ last.res = Raise("ValueError")

-----------------------------------------------------------------------------
(* Properties of set_services, checked under Spec *)

\* C21: set_services accepts only the names http_client and authorization:
\* with any other name it raises NameError and leaves both slots as they
\* were; with an accepted name it returns None, stores the value in that slot
\* and leaves the other slot as it was. The slots stay the same two.
SetServicesFrame ==
    [][ last'.op = "set_services"
        => /\ DOMAIN services' = {"http_client", "authorization"}
           /\ IF last'.name \in {"http_client", "authorization"}
              THEN /\ last'.res = Return(NoneV)
                   /\ services'[last'.name] = last'.kwargs["value"]
                   /\ \A k \in DOMAIN services :
                         k /= last'.name => services'[k] = services[k]
              ELSE /\ last'.res = Raise("NameError")
                   /\ services' = services ]_vars

SetServicesFrameWitness ==
    /\ last.op = "set_services"
    /\ last.name = "authorization"
    /\ last.res = Return(NoneV)
    /\ services["authorization"] = last.kwargs["value"]
    /\ services["http_client"] /= NoneV

\* the rejected name happens too, with a slot already set
UnknownServiceRejected ==
    /\ last.op = "set_services"
    /\ last.name = "transport"
    /\ last.res = Raise("NameError")
    /\ services["http_client"] /= NoneV

-----------------------------------------------------------------------------
(* C22 *)

\* C22: under any interleaving of two create calls with different
\* (base_url, authorizer) pairs, the object returned to each caller is bound
\* to the Transport and the Authorizer of its own call.
CallersIsolated ==
    \A t \in ThreadIds :
        threads[t].pc = "done"
        => /\ threads[t].res.outcome = "return"
           /\ threads[t].res.value /= NoneV
           /\ threads[t].res.value.slots["http_client"] = HTTPRequest(threads[t].base_url)
           /\ threads[t].res.value.slots["authorization"] = threads[t].authorization

\* the lookup of a caller reads the services that caller stored
LookupSeesOwnServices ==
    \A t \in ThreadIds :
        threads[t].pc = "done"
        => threads[t].found = [http_client |-> threads[t].http_client,
                               authorization |-> threads[t].authorization]

\* a caller whose lookup read the Transport of the other call next to its
\* own Authorizer
LookupSawOtherTransport ==
    /\ threads["t1"].pc = "done"
    /\ threads["t1"].found.http_client = HTTPRequest("https://y")
    /\ threads["t1"].found.authorization = threads["t1"].authorization

\* no concurrent create call returns: each ends in TypeError
ConcurrentCreateRaises ==
    \A t \in ThreadIds :
        threads[t].pc = "done"
        => (threads[t].res.outcome = "raise" /\ threads[t].res.error = "TypeError")

-----------------------------------------------------------------------------
(* C23 *)

\* C23: the auth property leaves the Authorizer's configuration unchanged,
\* and the outcome of a call that fetches is decided by the response of that
\* same call alone, whatever the call before returned: a status other than 200
\* gives None, a status of 200 gives the credential built from that response.
NoRestingState ==
    [][ last'.op = "auth"
        => /\ authz' = authz
           /\ (authz.bearer_token = "" /\ Len(last'.heard) = 1
                 /\ last'.heard[1].outcome = "return")
              => LET body == last'.heard[1].value IN
                 IF body.status = 200
                 THEN last'.res = _Auth(body)
                 ELSE last'.res = Return(NoneV) ]_vars

\* a call that succeeded, then a call answered 401: no credential
NoRestingStateWitness ==
    /\ last.op = "auth" /\ authz.bearer_token = ""
    /\ Len(last.before) = 1
    /\ last.before[1].res.outcome = "return"
    /\ last.before[1].res.value /= NoneV
    /\ last.before[1].res.value.slots["token"] = "tok1"
    /\ last.heard[1].outcome = "return"
    /\ last.heard[1].value.status = 401
    /\ last.res = Return(NoneV)

\* a call answered 401, then a call answered 200: a credential
RefusedThenSuccess ==
    /\ last.op = "auth" /\ authz.bearer_token = ""
    /\ Len(last.before) = 1
    /\ last.before[1].res = Return(NoneV)
    /\ last.heard[1].outcome = "return"
    /\ last.heard[1].value.status = 200
    /\ last.res.outcome = "return"
    /\ last.res.value /= NoneV
    /\ last.res.value.slots["token"] = "tok1"

-----------------------------------------------------------------------------
(* C24 *)

-----------------------------------------------------------------------------
(* C25 *)

\* C25: constructing the client with base_url, user, password and basic_auth
\* succeeds, and the client holds that base_url and an Authorizer with exactly
\* those values, basic_auth as the Basic token and user_type 'external' unless
\* one was given.
ClientHoldsItsArguments ==
    last.op = "TuttoAPI"
    => /\ last.res.outcome = "return"
       /\ last.res.value.cls = "TuttoAPI"
       /\ last.res.value.base_url = last.kwargs["base_url"]
       /\ last.res.value.authorization
            = Authorization(last.kwargs["base_url"], last.kwargs["user"],
                            last.kwargs["password"], last.kwargs["basic_auth"],
                            IF "user_type" \in DOMAIN last.kwargs
                            THEN last.kwargs["user_type"] ELSE "external")

\* no construction of the client succeeds: each ends in TypeError
ClientNeverConstructed ==
    last.op = "TuttoAPI" => last.res = Raise("TypeError")

\* a construction of the client with the default user_type has been tried
ClientConstructionTried ==
    last.op = "TuttoAPI" /\ "user_type" \notin DOMAIN last.kwargs

-----------------------------------------------------------------------------
(* C26 *)

\* the field keywords hold every required field of the older variant name
\* and nothing but its fields
LegacyFieldsGiven(name, kwargs) ==
    /\ RequiredNames(LegacyFields(name)) \ {"http_client", "bearer_token"}
          \subseteq DOMAIN kwargs
    /\ DOMAIN kwargs \subseteq FieldNames(LegacyFields(name)) \ {"http_client", "bearer_token"}

\* the older factory built the variant of the name it was asked for, bound to
\* a Transport for base_url and to the bearer token of the call
LegacyBuilt ==
    /\ last.res.outcome = "return"
    /\ last.res.value /= NoneV
    /\ last.res.value.cls = LegacyEndpoints[last.name]
    /\ last.res.value.slots["http_client"] = HTTPRequest(last.base_url)
    /\ last.res.value.slots["bearer_token"] = last.bearer_token

\* C26: for each of the 10 names of its table, called with that variant's
\* required fields, the older factory returns a request of that variant bound
\* to a Transport for base_url and to the given bearer token; for any other
\* name it returns no object.
LegacyFactoryTotal ==
    last.op = "legacy_create_endpoint"
    => IF last.name \in DOMAIN LegacyEndpoints
       THEN LegacyFieldsGiven(last.name, last.kwargs) => LegacyBuilt
       ELSE last.res = Return(NoneV)

\* the same holds for the nine names other than 'auth'
LegacyFactoryTotalButAuth ==
    (last.op = "legacy_create_endpoint" /\ last.name /= "auth")
    => IF last.name \in DOMAIN LegacyEndpoints
       THEN LegacyFieldsGiven(last.name, last.kwargs) => LegacyBuilt
       ELSE last.res = Return(NoneV)

\* for 'auth' the older factory raises TypeError whatever the fields
LegacyAuthNeverBuilt ==
    (last.op = "legacy_create_endpoint" /\ last.name = "auth")
    => last.res = Raise("TypeError")

\* a name outside the table was tried and gave None
LegacyUnknownGaveNone ==
    /\ last.op = "legacy_create_endpoint"
    /\ last.name \notin DOMAIN LegacyEndpoints
    /\ last.res = Return(NoneV)

\* a name of the table was tried with its required fields and was built
LegacyKnownBuilt ==
    /\ last.op = "legacy_create_endpoint"
    /\ last.name = "occupations"
    /\ LegacyFieldsGiven(last.name, last.kwargs)
    /\ LegacyBuilt

====
